---- MODULE Spec2Model ----
(***************************************************************************)
(* A model of the CoreAudio backend of render_callback: the aggregate      *)
(* device wrapper (coreaudio/aggregate_device.rs), the session bridge and  *)
(* its real-time trampoline (coreaudio/session.rs) and the enumeration     *)
(* they use (coreaudio/backend.rs, coreaudio/device.rs).                   *)
(*                                                                         *)
(* Two contexts run: the control context (ctl), which executes one         *)
(* operation at a time, one hardware primitive per step, and the hardware  *)
(* clock's callback context (tramp), which may run between any two steps.  *)
(* The audio hardware is the environment: every primitive returns noErr or *)
(* a non-zero status; a failed primitive changes nothing; a primitive on   *)
(* an object that does not exist always fails.  AudioDeviceStop returns    *)
(* noErr only once no invocation of that IOProc is in flight.  Destroying  *)
(* a device removes the IOProcs registered on it.                          *)
(*                                                                         *)
(* A panic (expect on a failed teardown primitive) unwinds: the fields of  *)
(* the value being dropped are still dropped and the box is freed; a       *)
(* second panic while unwinding aborts the process.                        *)
(*                                                                         *)
(* A second specification, SpecCalls, applies the operations that are      *)
(* functions of their arguments and of what the hardware returns (the      *)
(* property operations, the trampoline, the buffer accessors) to arguments *)
(* drawn from bounded sets.                                                *)
(***************************************************************************)
EXTENDS Integers, Sequences, FiniteSets, TLC

\* Number of sessions a run may construct.
MaxSessions == 2

\* cf.rs: check_os_status compares against noErr.
noErr == 0

\* Two arbitrary non-zero OSStatus values the hardware may return.
OsErrors == {1, 2}

Status == {noErr} \cup OsErrors

\* Handles of the physical devices present in the system.
Phys == {1, 2}

\* aggregate_device.rs: the fixed UID of the virtual device.
AGGREGATE_DEVICE_UID == "com.github.mhallin.Audioshop"

\* The plug-in object kAudioHardwarePropertyPlugInForBundleID resolves to.
PluginId == "com.apple.audio.CoreAudio"

Sessions == 1..MaxSessions

\* Handles the hardware gives to the aggregate devices it creates.
AggHandles == {Cardinality(Phys) + k : k \in 1..MaxSessions}

\* IOProc ids the hardware gives out; NoProc is the empty callback slot.
ProcIds == 1..MaxSessions
NoProc == 0

\* CADevice::uninit(): the placeholder handle.
UninitDevice == 0

\* size_of::<CADevice>(): a device handle is one u32.
HandleSize == 4

\* 2^30: a u32 channel count from here on makes 4 * c leave the u32 range.
TwoTo30 == 1073741824

\* The result of an accessor that panicked.
Panicked == -1

\* An operation that returned Err returned no output value.
NoValue == "none"

\* The output of an operation whose Ok carries no value.
Unit == "()"

\* Bounds of the arguments SpecCalls draws: the longest device list, and
\* the number of channel counts tried below 2^30 and from 2^30 on.
MaxDevices == 3
MaxChannels == 3

\* Device lists in any order, without duplicates.
DeviceLists ==
    {l \in UNION {[1..n -> 1..MaxDevices] : n \in 0..MaxDevices} :
        \A i, j \in DOMAIN l : i # j => l[i] # l[j]}

\* mDataByteSize values tried, and mNumberChannels values >= 1.
ByteSizes == {0, 3, 4, 8, 12, 16, 24, 4096}
Channels == (1..MaxChannels) \cup {TwoTo30 + k : k \in 0..MaxChannels}

\* The property operations, and the number of primitives each issues.
ScalarOps ==
    {"get", "set", "translate", "get_qualified", "default_input_device",
     "default_output_device", "uid"}
ListOps == {"get_list", "all_devices"}
PropertyOps == ScalarOps \cup ListOps

\* Byte sizes of the C structures of a stream configuration (64-bit
\* target): size_of::<AudioBufferList>(), which holds one AudioBuffer, the
\* size of an AudioBuffer, and the offset of mBuffers in the list.
AudioBufferListSize == 24
AudioBufferSize == 16
BuffersOffset == 8

\* Bound of the stream layouts SpecCalls draws: the most streams of a
\* device in one direction.
MaxStreams == 2

\* A stream layout: the channel count of each stream of one direction.
StreamLayouts == UNION {[1..n -> 1..MaxChannels] : n \in 0..MaxStreams}

VARIABLES
    devList,      \* hardware: the system object's device list, in OS order
    subDevices,   \* hardware: each aggregate handle's full sub-device list
    nextAgg,      \* hardware: number of aggregate devices created so far
    ioProc,       \* hardware: the IOProc table, by IOProc id
    tramp,        \* callback context: session_io_proc's position, by IOProc id
    sess,         \* the CASession / AggregateDevice values, by session
    ctl,          \* control context: the operation in progress and its position
    log,          \* per session, the lifecycle primitives it has issued, in order
    refreshed,    \* the wrappers whose last refresh_sub_device_array returned
                  \* Ok and whose input / output were not replaced since
    call          \* the last single call of a property operation, of the
                  \* trampoline or of a buffer accessor on given arguments,
                  \* with what it returned (used by SpecCalls only)

vars == <<devList, subDevices, nextAgg, ioProc, tramp, sess, ctl, log, refreshed,
          call>>

Range(f) == {f[i] : i \in DOMAIN f}

----------------------------------------------------------------------------
(* The hardware.                                                           *)

\* An object the hardware knows: a device of the device list.
OsValid(h) == h \in Range(devList)

\* kAudioDevicePropertyDeviceUID of a device.
OsUid(h) == IF h \in Phys THEN <<"AppleHDA", h>> ELSE AGGREGATE_DEVICE_UID

\* The statuses a primitive on object(s) that are all valid / not all valid may return.
OsStatuses(valid) == IF valid THEN Status ELSE OsErrors

\* An entry of the IOProc table: live while registered, used once given out
\* (the hardware never gives the same id out twice in a run).
FreeProc ==
    [live |-> FALSE, used |-> FALSE, dev |-> UninitDevice, ctx |-> 0,
     running |-> FALSE]

\* An entry after its registration is gone (its id is not given out again).
Released(e) == [e EXCEPT !.live = FALSE, !.running = FALSE]

\* The id AudioDeviceCreateIOProcID gives out next.
FreshProcs == {p \in ProcIds : ~ioProc[p].used /\ \A q \in ProcIds : q < p => ioProc[q].used}

\* The aggregate devices with the fixed UID in the device list.
Aggregates == {h \in Range(devList) : OsUid(h) = AGGREGATE_DEVICE_UID}

RemoveDevice(list, h) == SelectSeq(list, LAMBDA x : x # h)

----------------------------------------------------------------------------
(* Pure parts of the code.                                                 *)

\* cf.rs check_os_status: Ok(()) for noErr, else Err(CFError(s)).  A Result
\* is a record: ok, and the OSStatus the error carries (noErr when ok).
CheckOsStatus(s) ==
    IF s = noErr THEN [ok |-> TRUE, err |-> noErr] ELSE [ok |-> FALSE, err |-> s]

\* A slip in the Drop implementations: the Result is discarded.
ExpectIgnored(r) == FALSE

\* Result::expect, as the Drop implementations use it: panics on an Err.
ExpectPanics(r) == ~r.ok

\* The `?` chain of an operation over the statuses its primitives return,
\* in order: the first Err leaves the operation; `issued` counts the
\* primitives issued.
RECURSIVE TryFrom(_, _)
TryFrom(sts, i) ==
    IF i > Len(sts) THEN [ok |-> TRUE, err |-> noErr, issued |-> Len(sts)]
    ELSE LET r == CheckOsStatus(sts[i])
         IN  IF r.ok THEN TryFrom(sts, i + 1)
             ELSE [ok |-> FALSE, err |-> r.err, issued |-> i]

\* A slip in a property operation: the status of a primitive is only looked
\* at after all primitives were issued, and the last one wins.
PropertyOpChecksLast(sts, value) ==
    LET r == CheckOsStatus(sts[Len(sts)])
    IN  [ok |-> r.ok, err |-> r.err, issued |-> Len(sts),
         value |-> IF r.ok THEN value ELSE NoValue]

\* properties.rs get / set / translate / get_qualified implementations and
\* backend.rs / device.rs property reads: each primitive goes through
\* check_os_status and `?`; the value read is returned only in Ok.
PropertyOp(sts, value) ==
    LET r == TryFrom(sts, 1)
    IN  [ok |-> r.ok, err |-> r.err, issued |-> r.issued,
         value |-> IF r.ok THEN value ELSE NoValue]

\* AudioObjectGetPropertyDataSize of a device list property: its byte size.
PropertyDataSize(list) == HandleSize * Len(list)

\* A slip in all_devices: the handles come back in reverse order.
AllDevicesReversed(probed, read) ==
    LET n == PropertyDataSize(probed) \div HandleSize
    IN  [i \in 1..n |-> IF n + 1 - i <= Len(read) THEN read[n + 1 - i]
                        ELSE UninitDevice]

\* backend.rs all_devices: a vector of size/4 placeholders, overwritten by
\* the bulk read; `probed` is the list at the size probe, `read` at the read.
AllDevices(probed, read) ==
    [i \in 1..(PropertyDataSize(probed) \div HandleSize) |->
        IF i <= Len(read) THEN read[i] ELSE UninitDevice]

\* A slip in session_io_proc: the output buffer list is not checked.
SessionIoProcIgnoresOutput(session, input, output, slot) ==
    [calls |-> IF session /\ input THEN (IF slot # NoProc THEN 1 ELSE 0) ELSE 0,
     ret |-> noErr]

\* session.rs session_io_proc: session, input, output tell whether the
\* context pointer and the two buffer list pointers are non-null, slot is
\* the session's callback slot.  `calls` is the number of times the render
\* callback is invoked, `ret` the status returned to the clock.
SessionIoProc(session, input, output, slot) ==
    [calls |-> IF session /\ input /\ output
               THEN (IF slot # NoProc THEN 1 ELSE 0)
               ELSE 0,
     ret |-> noErr]

\* u32 arithmetic of num_frames: 4 * c modulo 2^32, and whether it wrapped.
Mul4(c) == 4 * (c % TwoTo30)
Mul4Overflows(c) == c >= TwoTo30

\* session.rs InterleavedBuffer::num_frames on mDataByteSize b and
\* mNumberChannels c.  With overflow checks (debug build) a wrapping
\* multiplication panics, without (release build) it wraps; a division by
\* zero panics in both.
NumFrames(b, c, overflowChecks) ==
    IF overflowChecks /\ Mul4Overflows(c) THEN Panicked
    ELSE IF Mul4(c) = 0 THEN Panicked
    ELSE b \div Mul4(c)

\* session.rs InterleavedBuffer::num_channels.
NumChannels(c) == c

\* AudioObjectGetPropertyDataSize of kAudioDevicePropertyStreamConfiguration:
\* an AudioBufferList with one AudioBuffer per stream of the scope.
StreamConfigurationSize(layout) == BuffersOffset + AudioBufferSize * Len(layout)

\* The channel count a stream configuration describes: the sum of the
\* mNumberChannels of its buffers.
RECURSIVE TotalChannels(_)
TotalChannels(layout) ==
    IF layout = <<>> THEN 0 ELSE Head(layout) + TotalChannels(Tail(layout))

\* device.rs num_inputs / num_outputs (the same code on the input / output
\* scope): the size probe, then size / size_of::<AudioBufferList>().
ChannelCount(st, size) == PropertyOp(<<st>>, size \div AudioBufferListSize)

\* aggregate_device.rs find_existing_aggregate_device: the first device of
\* `devices` whose UID is the fixed UID, as <<status, found>>; found is
\* UninitDevice for None.  failAt is the index of the device whose UID query
\* the hardware fails with status e (0: the hardware fails none; a query on
\* a handle the hardware does not know fails by itself).
RECURSIVE ScanFrom(_, _, _, _)
ScanFrom(devices, i, failAt, e) ==
    IF i > Len(devices) THEN <<noErr, UninitDevice>>
    ELSE IF i = failAt \/ ~OsValid(devices[i]) THEN <<e, UninitDevice>>
    ELSE IF OsUid(devices[i]) = AGGREGATE_DEVICE_UID THEN <<noErr, devices[i]>>
    ELSE ScanFrom(devices, i + 1, failAt, e)

\* A slip in the scan: the UID comparison never matches.
FindExistingNeverMatches(devices, failAt, e) ==
    IF \E i \in 1..Len(devices) : i = failAt \/ ~OsValid(devices[i])
    THEN <<e, UninitDevice>> ELSE <<noErr, UninitDevice>>

FindExistingAggregateDevice(devices, failAt, e) == ScanFrom(devices, 1, failAt, e)

\* A slip in refresh_sub_device_array: the output UID is pushed first.
SubDeviceArrayOutputFirst(input, output) ==
    LET array == Append(<<>>, OsUid(output))
    IN  IF input # output THEN Append(array, OsUid(input)) ELSE array

\* aggregate_device.rs refresh_sub_device_array, lines 76-84: the array.
SubDeviceArray(input, output) ==
    LET array == Append(<<>>, OsUid(input))
    IN  IF input # output THEN Append(array, OsUid(output)) ELSE array

\* A slip in refresh_sub_device_array: a failed output UID query is skipped
\* and the array built so far is written.
RefreshOutcomeSkipsFailedOutput(input, output, uidIn, uidOut, write) ==
    LET r == TryFrom(<<uidIn, write>>, 1)
    IN  [ok |-> r.ok, err |-> r.err, wrote |-> r.issued = 2,
         array |-> IF r.issued = 2
                   THEN (IF uidOut = noErr THEN SubDeviceArray(input, output)
                         ELSE <<OsUid(input)>>)
                   ELSE <<>>]

\* aggregate_device.rs refresh_sub_device_array on stored handles input and
\* output: the input UID query, the output UID query when the handles
\* differ, then the write of the array; uidIn, uidOut and write are the
\* statuses the hardware returns to them.  `wrote` tells whether the write
\* was issued, `array` is the array it was issued with (empty when it was
\* not issued).
RefreshOutcome(input, output, uidIn, uidOut, write) ==
    LET sts == IF input # output THEN <<uidIn, uidOut, write>>
               ELSE <<uidIn, write>>
        r == TryFrom(sts, 1)
    IN  [ok |-> r.ok, err |-> r.err, wrote |-> r.issued = Len(sts),
         array |-> IF r.issued = Len(sts) THEN SubDeviceArray(input, output)
                   ELSE <<>>]

----------------------------------------------------------------------------
(* Initial state: no session constructed, only the physical devices.       *)

NoSession ==
    [st |-> "unborn", plugin_id |-> "", device |-> UninitDevice,
     input |-> UninitDevice, output |-> UninitDevice, callback |-> NoProc]

\* The control context at rest.  Besides the position (pc, op, s, arg) and
\* the outcome (status: the OSStatus the returned error carries; panicking),
\* it records what the hardware did during the operation: hw, the first
\* non-zero status it returned to a primitive other than a teardown
\* primitive; tdfail, whether a teardown primitive returned non-zero; and
\* what the operation found when it was called: pre, the virtual devices in
\* the device list; snap, the sub-device list and the other stored handle.
Idle ==
    [pc |-> "idle", op |-> "none", s |-> 0, arg |-> UninitDevice,
     status |-> noErr, panicking |-> FALSE, pre |-> {},
     hw |-> noErr, tdfail |-> FALSE, snap |-> <<>>]

NoCall == [op |-> "none"]

Init ==
    /\ devList = <<1, 2>>
    /\ subDevices = [h \in AggHandles |-> <<>>]
    /\ nextAgg = 0
    /\ ioProc = [p \in ProcIds |-> FreeProc]
    /\ tramp = [p \in ProcIds |-> "none"]
    /\ sess = [s \in Sessions |-> NoSession]
    /\ ctl = Idle
    /\ log = [s \in Sessions |-> <<>>]
    /\ refreshed = {}
    /\ call = NoCall

Issue(s, prim) == log' = [log EXCEPT ![s] = Append(@, prim)]

----------------------------------------------------------------------------
(* Control context: start_session.                                         *)

\* backend.rs start_session -> session.rs new_started -> AggregateDevice::new.
\* Sessions are numbered in the order they are constructed.
StartSession(s, input, output) ==
    /\ ctl.pc = "idle"
    /\ sess[s].st = "unborn"
    /\ \A t \in Sessions : t < s => sess[t].st # "unborn"
    /\ ctl' = [Idle EXCEPT !.pc = "plugin", !.op = "start", !.s = s,
                           !.pre = Aggregates]
    /\ sess' = [sess EXCEPT ![s] = [NoSession EXCEPT !.st = "building",
                                       !.input = input, !.output = output]]
    /\ UNCHANGED <<call, devList, subDevices, nextAgg, ioProc, tramp, log, refreshed>>

\* An error leaves start_session before any value that needs teardown exists.
FailStart(st) ==
    /\ sess' = [sess EXCEPT ![ctl.s] = [NoSession EXCEPT !.st = "failed"]]
    /\ ctl' = [ctl EXCEPT !.pc = "ret", !.status = CheckOsStatus(st).err,
                          !.hw = st]

\* aggregate_device.rs get_audio_plugin_id.
GetAudioPluginId ==
    /\ ctl.pc = "plugin"
    /\ \E st \in Status :
         IF st = noErr
         THEN /\ sess' = [sess EXCEPT ![ctl.s].plugin_id = PluginId]
              /\ ctl' = [ctl EXCEPT !.pc = "find"]
         ELSE FailStart(st)
    /\ UNCHANGED <<call, devList, subDevices, nextAgg, ioProc, tramp, log, refreshed>>

\* A slip in the match of AggregateDevice::new: a device is always created.
AfterScanAlwaysCreate(found) == "create"

\* AggregateDevice::new, lines 36-39: the device found is reused, and one is
\* created only when the scan found none.
AfterScan(found) == IF found # UninitDevice THEN "refresh" ELSE "create"

\* AggregateDevice::new, line 36: all_devices() and the scan of its result.
FindExisting ==
    /\ ctl.pc = "find"
    /\ \E allSt \in Status, failAt \in 0..Len(devList), e \in OsErrors :
         LET devices == AllDevices(devList, devList)
             r == FindExistingAggregateDevice(devices, failAt, e)
         IN  IF allSt # noErr THEN FailStart(allSt)
             ELSE IF r[1] # noErr THEN FailStart(r[1])
             ELSE /\ sess' = [sess EXCEPT ![ctl.s].device = r[2]]
                  /\ ctl' = [ctl EXCEPT !.pc = AfterScan(r[2])]
    /\ UNCHANGED <<call, devList, subDevices, nextAgg, ioProc, tramp, log, refreshed>>

\* aggregate_device.rs create_aggregate_device: the qualified creation query.
CreateAggregateDevice ==
    /\ ctl.pc = "create"
    /\ Issue(ctl.s, "create")
    /\ \E st \in Status :
         IF st = noErr
         THEN LET h == Cardinality(Phys) + nextAgg + 1
              IN  /\ devList' = Append(devList, h)
                  /\ subDevices' = [subDevices EXCEPT ![h] = <<>>]
                  /\ nextAgg' = nextAgg + 1
                  /\ sess' = [sess EXCEPT ![ctl.s].device = h]
                  /\ ctl' = [ctl EXCEPT !.pc = "refresh"]
         ELSE /\ FailStart(st)
              /\ UNCHANGED <<devList, subDevices, nextAgg>>
    /\ UNCHANGED <<call, ioProc, tramp, refreshed>>

\* aggregate_device.rs refresh_sub_device_array, called by new (line 48) and
\* by set_input / set_output: the UID queries, then the write.  A failure in
\* new drops the wrapper just built (its Drop sends the destroy command).
RefreshSubDeviceArray ==
    /\ ctl.pc = "refresh"
    /\ LET w == sess[ctl.s]
           outcomes ==
               {RefreshOutcome(w.input, w.output, uidIn, uidOut, write) :
                   uidIn \in OsStatuses(OsValid(w.input)),
                   uidOut \in OsStatuses(OsValid(w.output)),
                   write \in OsStatuses(OsValid(w.device))}
       IN  \E r \in outcomes :
                 IF r.ok
                 THEN /\ subDevices' = [subDevices EXCEPT ![w.device] = r.array]
                      /\ refreshed' = refreshed \cup {ctl.s}
                      /\ ctl' = [ctl EXCEPT !.pc = IF ctl.op = "start"
                                                   THEN "register" ELSE "ret"]
                 ELSE /\ subDevices' = subDevices
                      /\ refreshed' = refreshed
                      /\ ctl' = [ctl EXCEPT !.status = r.err,
                                            !.hw = r.err,
                                            !.pc = IF ctl.op = "start"
                                                   THEN "destroy" ELSE "ret"]
    /\ UNCHANGED <<call, devList, nextAgg, ioProc, tramp, sess, log>>

\* A slip in Drop for CASession: its body never runs.
DropEntrySkipsBody(s) == "destroy"

\* The first step of dropping a boxed session: Drop for CASession runs its
\* body only when the slot is populated; the fields are dropped after it.
DropEntry(s) == IF sess[s].callback # NoProc THEN "stop" ELSE "destroy"

\* A slip in new_started: a failed registration leaves without dropping the
\* box, so the wrapper's destroy command is never sent.
RegisterFailureLeaks ==
    /\ ctl.pc = "register"
    /\ Issue(ctl.s, "register")
    /\ LET dev == sess[ctl.s].device
       IN  \E st \in OsStatuses(OsValid(dev)), p \in FreshProcs :
             IF st = noErr
             THEN /\ ioProc' = [ioProc EXCEPT ![p] =
                                  [live |-> TRUE, used |-> TRUE, dev |-> dev,
                                   ctx |-> ctl.s, running |-> FALSE]]
                  /\ ctl' = [ctl EXCEPT !.pc = "store", !.arg = p]
             ELSE /\ ioProc' = ioProc
                  /\ ctl' = [ctl EXCEPT !.pc = "ret",
                                        !.status = CheckOsStatus(st).err,
                                        !.hw = st]
    /\ UNCHANGED <<call, devList, subDevices, nextAgg, tramp, sess, refreshed>>

\* new_started, lines 32-44: box the session with an empty slot and
\* register the trampoline with the box as its context pointer.  On an
\* error the box is dropped with its slot empty.
Register ==
    /\ ctl.pc = "register"
    /\ Issue(ctl.s, "register")
    /\ LET dev == sess[ctl.s].device
       IN  \E st \in OsStatuses(OsValid(dev)), p \in FreshProcs :
             IF st = noErr
             THEN /\ ioProc' = [ioProc EXCEPT ![p] =
                                  [live |-> TRUE, used |-> TRUE, dev |-> dev,
                                   ctx |-> ctl.s, running |-> FALSE]]
                  /\ ctl' = [ctl EXCEPT !.pc = "store", !.arg = p]
             ELSE /\ ioProc' = ioProc
                  /\ ctl' = [ctl EXCEPT !.pc = DropEntry(ctl.s),
                                        !.status = CheckOsStatus(st).err,
                                        !.hw = st]
    /\ UNCHANGED <<call, devList, subDevices, nextAgg, tramp, sess, refreshed>>

\* A slip in new_started: the slot is left empty before the clock is started.
StoreForgotten ==
    /\ ctl.pc = "store"
    /\ Issue(ctl.s, "store")
    /\ ctl' = [ctl EXCEPT !.pc = "start"]
    /\ UNCHANGED <<call, devList, subDevices, nextAgg, ioProc, tramp, sess, refreshed>>

\* A slip in new_started: the id stored is not the id the hardware returned.
StoreStaleId ==
    /\ ctl.pc = "store"
    /\ Issue(ctl.s, "store")
    /\ sess' = [sess EXCEPT ![ctl.s].callback = (ctl.arg % MaxSessions) + 1]
    /\ ctl' = [ctl EXCEPT !.pc = "start"]
    /\ UNCHANGED <<call, devList, subDevices, nextAgg, ioProc, tramp, refreshed>>

\* new_started, line 47: session.callback = Some((proc_id, callback)).
Store ==
    /\ ctl.pc = "store"
    /\ Issue(ctl.s, "store")
    /\ sess' = [sess EXCEPT ![ctl.s].callback = ctl.arg]
    /\ ctl' = [ctl EXCEPT !.pc = "start"]
    /\ UNCHANGED <<call, devList, subDevices, nextAgg, ioProc, tramp, refreshed>>

\* A slip in new_started: a failed AudioDeviceStart registers again.
StartClockRetries ==
    /\ ctl.pc = "start"
    /\ Issue(ctl.s, "start")
    /\ LET dev == sess[ctl.s].device
           p == ctl.arg
       IN  \E st \in OsStatuses(OsValid(dev) /\ ioProc[p].live
                                 /\ ioProc[p].dev = dev) :
             IF st = noErr
             THEN /\ ioProc' = [ioProc EXCEPT ![p].running = TRUE]
                  /\ sess' = [sess EXCEPT ![ctl.s].st = "live"]
                  /\ ctl' = [ctl EXCEPT !.pc = "ret"]
             ELSE /\ ioProc' = ioProc
                  /\ sess' = sess
                  /\ ctl' = [ctl EXCEPT !.pc = "register"]
    /\ UNCHANGED <<call, devList, subDevices, nextAgg, tramp, refreshed>>

\* new_started, line 49: AudioDeviceStart.  On an error the box is dropped
\* with its slot populated (Drop for CASession stops and unregisters).
StartClock ==
    /\ ctl.pc = "start"
    /\ Issue(ctl.s, "start")
    /\ LET dev == sess[ctl.s].device
           p == ctl.arg
       IN  \E st \in OsStatuses(OsValid(dev) /\ ioProc[p].live
                                 /\ ioProc[p].dev = dev) :
             IF st = noErr
             THEN /\ ioProc' = [ioProc EXCEPT ![p].running = TRUE]
                  /\ sess' = [sess EXCEPT ![ctl.s].st = "live"]
                  /\ ctl' = [ctl EXCEPT !.pc = "ret"]
             ELSE /\ ioProc' = ioProc
                  /\ sess' = sess
                  /\ ctl' = [ctl EXCEPT !.pc = DropEntry(ctl.s),
                                        !.status = CheckOsStatus(st).err,
                                        !.hw = st]
    /\ UNCHANGED <<call, devList, subDevices, nextAgg, tramp, refreshed>>

\* The operation returns (Ok, an error, or a panic that reached the caller).
Return ==
    /\ ctl.pc = "ret"
    /\ ctl' = Idle
    /\ UNCHANGED <<call, devList, subDevices, nextAgg, ioProc, tramp, sess, log, refreshed>>

----------------------------------------------------------------------------
(* Control context: device swap on a started session.                      *)

\* A slip in set_input: the handle is stored only after a successful write.
SetInputNotStored(s, d) ==
    /\ ctl.pc = "idle"
    /\ sess[s].st = "live"
    /\ sess' = sess
    /\ refreshed' = refreshed \ {s}
    /\ ctl' = [Idle EXCEPT !.pc = "refresh", !.op = "set_input", !.s = s,
                           !.arg = d,
                           !.snap = <<subDevices[sess[s].device], sess[s].output>>]
    /\ UNCHANGED <<call, devList, subDevices, nextAgg, ioProc, tramp, log>>

\* session.rs input_device / output_device: the wrapper's stored handles.
InputDevice(s) == sess[s].input
OutputDevice(s) == sess[s].output

\* session.rs set_input_device -> aggregate_device.rs set_input, line 66.
SetInput(s, d) ==
    /\ ctl.pc = "idle"
    /\ sess[s].st = "live"
    /\ sess' = [sess EXCEPT ![s].input = d]
    /\ refreshed' = refreshed \ {s}
    /\ ctl' = [Idle EXCEPT !.pc = "refresh", !.op = "set_input", !.s = s,
                           !.arg = d,
                           !.snap = <<subDevices[sess[s].device], sess[s].output>>]
    /\ UNCHANGED <<call, devList, subDevices, nextAgg, ioProc, tramp, log>>

\* session.rs set_output_device -> aggregate_device.rs set_output, line 71.
SetOutput(s, d) ==
    /\ ctl.pc = "idle"
    /\ sess[s].st = "live"
    /\ sess' = [sess EXCEPT ![s].output = d]
    /\ refreshed' = refreshed \ {s}
    /\ ctl' = [Idle EXCEPT !.pc = "refresh", !.op = "set_output", !.s = s,
                           !.arg = d,
                           !.snap = <<subDevices[sess[s].device], sess[s].input>>]
    /\ UNCHANGED <<call, devList, subDevices, nextAgg, ioProc, tramp, log>>

----------------------------------------------------------------------------
(* Control context: teardown.                                              *)

\* The owner drops a started session.
DropSession(s) ==
    /\ ctl.pc = "idle"
    /\ sess[s].st = "live"
    /\ ctl' = [Idle EXCEPT !.pc = DropEntry(s), !.op = "drop", !.s = s]
    /\ UNCHANGED <<call, devList, subDevices, nextAgg, ioProc, tramp, sess, log, refreshed>>

\* Drop for CASession, line 68: AudioDeviceStop, expect.  The hardware
\* returns noErr only when no invocation of the IOProc is in flight.
StopClock ==
    /\ ctl.pc = "stop"
    /\ Issue(ctl.s, "stop")
    /\ LET dev == sess[ctl.s].device
           p == sess[ctl.s].callback
       IN  \E st \in OsStatuses(OsValid(dev) /\ ioProc[p].live
                                 /\ ioProc[p].dev = dev /\ tramp[p] = "none") :
             LET r == CheckOsStatus(st)
             IN  IF r.ok
                 THEN /\ ioProc' = [ioProc EXCEPT ![p].running = FALSE]
                      /\ ctl' = [ctl EXCEPT !.pc = "unreg"]
                 ELSE /\ ioProc' = ioProc
                      /\ ctl' = [ctl EXCEPT !.pc = "destroy", !.tdfail = TRUE,
                                            !.panicking = ExpectPanics(r)]
    /\ UNCHANGED <<call, devList, subDevices, nextAgg, tramp, sess, refreshed>>

\* Drop for CASession, lines 70-74: AudioDeviceDestroyIOProcID, expect.
Unregister ==
    /\ ctl.pc = "unreg"
    /\ Issue(ctl.s, "unregister")
    /\ LET dev == sess[ctl.s].device
           p == sess[ctl.s].callback
       IN  \E st \in OsStatuses(OsValid(dev) /\ ioProc[p].live
                                 /\ ioProc[p].dev = dev) :
             LET r == CheckOsStatus(st)
             IN  IF r.ok
                 THEN /\ ioProc' = [ioProc EXCEPT ![p] = Released(ioProc[p])]
                      /\ ctl' = [ctl EXCEPT !.pc = "destroy"]
                 ELSE /\ ioProc' = ioProc
                      /\ ctl' = [ctl EXCEPT !.pc = "destroy", !.tdfail = TRUE,
                                            !.panicking = ExpectPanics(r)]
    /\ UNCHANGED <<call, devList, subDevices, nextAgg, tramp, sess, refreshed>>

\* A slip: AggregateDevice has no Drop, no destroy command is sent.
DestroyForgotten ==
    /\ ctl.pc = "destroy"
    /\ ctl' = [ctl EXCEPT !.pc = "free"]
    /\ UNCHANGED <<call, devList, subDevices, nextAgg, ioProc, tramp, sess, log,
                   refreshed>>

\* Drop for AggregateDevice: the destroy command to the plug-in, expect.
\* A panic while already unwinding aborts the process.
Destroy ==
    /\ ctl.pc = "destroy"
    /\ Issue(ctl.s, "destroy")
    /\ LET dev == sess[ctl.s].device
       IN  \E st \in OsStatuses(OsValid(dev)) :
             LET r == CheckOsStatus(st)
             IN  IF r.ok
                 THEN /\ devList' = RemoveDevice(devList, dev)
                      /\ subDevices' = [subDevices EXCEPT ![dev] = <<>>]
                      /\ ioProc' = [p \in ProcIds |->
                                      IF ioProc[p].live /\ ioProc[p].dev = dev
                                      THEN Released(ioProc[p])
                                      ELSE ioProc[p]]
                      /\ ctl' = [ctl EXCEPT !.pc = "free"]
                 ELSE /\ UNCHANGED <<devList, subDevices, ioProc>>
                      /\ ctl' = IF ctl.panicking /\ ExpectPanics(r)
                                THEN [ctl EXCEPT !.pc = "aborted",
                                                 !.tdfail = TRUE]
                                ELSE [ctl EXCEPT !.pc = "free", !.tdfail = TRUE,
                                        !.panicking = ctl.panicking \/ ExpectPanics(r)]
    /\ UNCHANGED <<call, nextAgg, tramp, sess, refreshed>>

\* The remaining fields are dropped and the box is freed.
Free ==
    /\ ctl.pc = "free"
    /\ sess' = [sess EXCEPT ![ctl.s] =
                  [NoSession EXCEPT !.st = IF ctl.op = "drop"
                                           THEN "freed" ELSE "failed"]]
    /\ refreshed' = refreshed \ {ctl.s}
    /\ ctl' = [ctl EXCEPT !.pc = "ret"]
    /\ UNCHANGED <<call, devList, subDevices, nextAgg, ioProc, tramp, log>>

----------------------------------------------------------------------------
(* Callback context: the hardware clock and session_io_proc.               *)

\* A slip in session_io_proc: the callback is taken out of the slot.
TrampolineEnterTakesCallback(p) ==
    /\ ctl.pc # "aborted"
    /\ ioProc[p].live /\ ioProc[p].running
    /\ tramp[p] = "none"
    /\ tramp' = [tramp EXCEPT ![p] = "user"]
    /\ sess' = [sess EXCEPT ![ioProc[p].ctx].callback = NoProc]
    /\ UNCHANGED <<call, devList, subDevices, nextAgg, ioProc, ctl, log, refreshed>>

\* The clock invokes the trampoline of a started IOProc with the context
\* pointer given at registration and two buffer lists.  session_io_proc,
\* lines 89-111: it invokes the user callback when the slot is populated.
\* Its context pointer dangles once the box is freed: either may happen.
TrampolineEnter(p) ==
    /\ ctl.pc # "aborted"
    /\ ioProc[p].live /\ ioProc[p].running
    /\ tramp[p] = "none"
    /\ LET s == ioProc[p].ctx
       IN  \E t \in IF sess[s].st \in {"freed", "failed"}
                    THEN {"user", "noop"}
                    ELSE IF SessionIoProc(TRUE, TRUE, TRUE,
                                          sess[s].callback).calls = 1
                    THEN {"user"}
                    ELSE {"noop"} :
             tramp' = [tramp EXCEPT ![p] = t]
    /\ UNCHANGED <<call, devList, subDevices, nextAgg, ioProc, sess, ctl, log, refreshed>>

\* session_io_proc, line 114: noErr is returned to the clock.
TrampolineReturn(p) ==
    /\ ctl.pc # "aborted"
    /\ tramp[p] # "none"
    /\ tramp' = [tramp EXCEPT ![p] = "none"]
    /\ UNCHANGED <<call, devList, subDevices, nextAgg, ioProc, sess, ctl, log, refreshed>>

----------------------------------------------------------------------------

Next ==
    \/ \E s \in Sessions, i \in Phys, o \in Phys : StartSession(s, i, o)
    \/ GetAudioPluginId
    \/ FindExisting
    \/ CreateAggregateDevice
    \/ RefreshSubDeviceArray
    \/ Register
    \/ Store
    \/ StartClock
    \/ Return
    \/ \E s \in Sessions, d \in Phys : SetInput(s, d)
    \/ \E s \in Sessions, d \in Phys : SetOutput(s, d)
    \/ \E s \in Sessions : DropSession(s)
    \/ StopClock
    \/ Unregister
    \/ Destroy
    \/ Free
    \/ \E p \in ProcIds : TrampolineEnter(p)
    \/ \E p \in ProcIds : TrampolineReturn(p)

Spec == Init /\ [][Next]_vars

----------------------------------------------------------------------------
(* Second specification: single calls on drawn arguments.                  *)

HardwareIdle ==
    UNCHANGED <<devList, subDevices, nextAgg, ioProc, tramp, sess, ctl, log,
                refreshed>>

\* A property operation that issues one primitive: properties.rs get, set,
\* translate, get_qualified; backend.rs default_input_device,
\* default_output_device; device.rs uid.  st is the status the hardware
\* returns, v the value it writes (the operations of type () return Unit).
CallScalarOp(op, st, v) ==
    /\ call = NoCall
    /\ call' = [op |-> op, sts |-> <<st>>, v |-> v,
                r |-> PropertyOp(<<st>>, IF op \in {"set", "translate"}
                                         THEN Unit ELSE v)]
    /\ HardwareIdle

\* A property operation that probes a size and then reads: backend.rs
\* all_devices and properties.rs get for Vec<CADevice>, on a device list
\* that does not change during the call.
CallListOp(op, list, probeSt, readSt) ==
    /\ call = NoCall
    /\ call' = [op |-> op, sts |-> <<probeSt, readSt>>, v |-> list,
                size |-> PropertyDataSize(list),
                r |-> PropertyOp(<<probeSt, readSt>>, AllDevices(list, list))]
    /\ HardwareIdle

\* The clock, or anyone, calls session_io_proc.
CallSessionIoProc(session, input, output, slot) ==
    /\ call = NoCall
    /\ call' = [op |-> "session_io_proc", session |-> session,
                input |-> input, output |-> output, slot |-> slot,
                r |-> SessionIoProc(session, input, output, slot)]
    /\ HardwareIdle

\* The render callback reads a buffer's shape.
CallBufferShape(b, c, overflowChecks) ==
    /\ call = NoCall
    /\ call' = [op |-> "buffer", b |-> b, c |-> c,
                num_frames |-> NumFrames(b, c, overflowChecks),
                num_channels |-> NumChannels(c)]
    /\ HardwareIdle

\* device.rs num_inputs / num_outputs on a device whose streams of that
\* scope have the given layout.
CallChannelCount(op, layout, st) ==
    /\ call = NoCall
    /\ call' = [op |-> op, layout |-> layout,
                size |-> StreamConfigurationSize(layout),
                r |-> ChannelCount(st, StreamConfigurationSize(layout))]
    /\ HardwareIdle

\* aggregate_device.rs refresh_sub_device_array on a wrapper storing input
\* and output whose virtual device's list is `old`.
CallRefresh(input, output, old, uidIn, uidOut, write) ==
    LET r == RefreshOutcome(input, output, uidIn, uidOut, write)
    IN  /\ call = NoCall
        /\ call' = [op |-> "refresh", input |-> input, output |-> output,
                    old |-> old, uidIn |-> uidIn, uidOut |-> uidOut,
                    write |-> write, r |-> r,
                    list |-> IF r.ok THEN r.array ELSE old]
        /\ HardwareIdle

\* backend.rs all_devices while the hardware's device list changes from
\* `probed` to `read` between the size probe and the bulk read.  The read
\* fills at most the bytes of the vector and reports the bytes it wrote.
CallAllDevicesRacing(probed, read, readSt) ==
    /\ call = NoCall
    /\ probed # read
    /\ call' = [op |-> "all_devices, list changing",
                probed |-> probed, read |-> read,
                size |-> PropertyDataSize(probed),
                reported |-> IF PropertyDataSize(read) < PropertyDataSize(probed)
                             THEN PropertyDataSize(read)
                             ELSE PropertyDataSize(probed),
                r |-> PropertyOp(<<noErr, readSt>>, AllDevices(probed, read))]
    /\ HardwareIdle

\* The caller has looked at the result of the call.
CallReturn ==
    /\ call # NoCall
    /\ call' = NoCall
    /\ HardwareIdle

NextCall ==
    \/ \E op \in ScalarOps, st \in Status, v \in Phys : CallScalarOp(op, st, v)
    \/ \E op \in ListOps, list \in DeviceLists, probeSt \in Status,
          readSt \in Status : CallListOp(op, list, probeSt, readSt)
    \/ \E session \in BOOLEAN, input \in BOOLEAN, output \in BOOLEAN,
          slot \in {NoProc} \cup ProcIds :
            CallSessionIoProc(session, input, output, slot)
    \/ \E b \in ByteSizes, c \in Channels, overflowChecks \in BOOLEAN :
            CallBufferShape(b, c, overflowChecks)
    \/ \E op \in {"num_inputs", "num_outputs"}, layout \in StreamLayouts,
          st \in Status : CallChannelCount(op, layout, st)
    \/ \E input \in Phys, output \in Phys, i \in Phys, o \in Phys,
          uidIn \in Status, uidOut \in Status, write \in Status :
            CallRefresh(input, output, SubDeviceArray(i, o), uidIn, uidOut, write)
    \/ \E probed \in DeviceLists, read \in DeviceLists, readSt \in Status :
            CallAllDevicesRacing(probed, read, readSt)
    \/ CallReturn

SpecCalls == Init /\ [][NextCall]_vars

----------------------------------------------------------------------------
(* Properties.                                                             *)

Issued(s, prim) == \E i \in 1..Len(log[s]) : log[s][i] = prim

Count(s, prim) == Cardinality({i \in 1..Len(log[s]) : log[s][i] = prim})

\* The sub-device list the data model prescribes for a stored pair.
Prescribed(input, output) ==
    IF input = output THEN <<OsUid(input)>> ELSE <<OsUid(input), OsUid(output)>>

\* AggregateDevice::new, set_input or set_output has just returned Ok.
RefreshReturnedOk ==
    \/ ctl.op = "start" /\ ctl.pc = "register"
    \/ ctl.op \in {"set_input", "set_output"} /\ ctl.pc = "ret"
       /\ ctl.status = noErr

\* C1: after every successful AggregateDevice::new, set_input(d) or
\* set_output(d) (also when new reused an existing virtual device) the
\* virtual device's sub-device list is [uid(input)] when the stored input
\* equals the stored output and [uid(input), uid(output)] otherwise; after a
\* successful set_input(D) its first entry is uid(D).
C1_ListAfterSuccessfulRefresh ==
    RefreshReturnedOk =>
        LET w == sess[ctl.s]
        IN  /\ subDevices[w.device] = Prescribed(w.input, w.output)
            /\ ctl.op = "set_input" => Head(subDevices[w.device]) = OsUid(ctl.arg)

\* A successful set_input to a pair of distinct devices on a session whose
\* start reused the virtual device another session had created.
C1_Witness ==
    /\ ctl.op = "set_input" /\ ctl.pc = "ret" /\ ctl.status = noErr
    /\ ~Issued(ctl.s, "create")
    /\ sess[ctl.s].input # sess[ctl.s].output

\* C2 (the claim as stated, taken at its most lenient): whenever a started
\* session's wrapper exists, its last refresh succeeded and no operation on
\* that session is in progress, the virtual device's sub-device list is the
\* one prescribed for that wrapper's stored input and output.
C2_ListAlwaysMatchesWrapper ==
    \A s \in Sessions :
        (sess[s].st = "live" /\ s \in refreshed /\ ctl.s # s) =>
            subDevices[sess[s].device] = Prescribed(sess[s].input, sess[s].output)

\* C3: at most one virtual device with the fixed UID is in the system's
\* device list at any time.
C3_AtMostOneAggregate == Cardinality(Aggregates) <= 1

\* A second virtual device has been created (after the first was destroyed)
\* and is in the device list.
C3_Witness == nextAgg = 2 /\ Aggregates # {}

\* C4: when start_session is called while a device with the fixed UID is in
\* the device list, the session's aggregate handle is that device's handle
\* and it issues no creation query; a creation query is issued only when no
\* device with the fixed UID was present.
C4_CreationIsIdempotent ==
    /\ (ctl.op = "start" /\ ctl.pc = "create") => ctl.pre = {}
    /\ (ctl.op = "start"
        /\ ctl.pc \in {"refresh", "register", "store", "start"}) =>
            /\ ctl.pre # {} => /\ sess[ctl.s].device \in ctl.pre
                               /\ ~Issued(ctl.s, "create")
            /\ Issued(ctl.s, "create") => ctl.pre = {}

\* A second start_session has reused the device the first one created.
C4_Witness ==
    /\ ctl.op = "start" /\ ctl.pc = "register" /\ ctl.pre # {}
    /\ \E t \in Sessions : t # ctl.s /\ sess[t].st = "live"
                           /\ sess[t].device = sess[ctl.s].device

\* The operation in progress is the drop of a started session and it has
\* run to its end without a panic.
DropCompleted == ctl.op = "drop" /\ ctl.pc = "ret" /\ ~ctl.panicking

\* C5: once a successfully started session has been dropped, it has no live
\* callback registration, no clock is running, and no virtual device with
\* the fixed UID is left in the device list.
C5_LifecycleSymmetry ==
    DropCompleted =>
        /\ \A p \in ProcIds : ioProc[p].ctx = ctl.s => ~ioProc[p].live
        /\ \A p \in ProcIds : ~ioProc[p].running
        /\ Aggregates = {}

\* A session that shared its virtual device with another live session has
\* been dropped.
C5_Witness ==
    /\ DropCompleted
    /\ \E t \in Sessions : t # ctl.s /\ sess[t].st = "live"

\* The position of the first `prim` in the session's log (0: not issued).
Pos(s, prim) ==
    LET at == {i \in 1..Len(log[s]) : log[s][i] = prim}
    IN  IF at = {} THEN 0 ELSE CHOOSE i \in at : \A j \in at : i <= j

\* C6: start_session registers the trampoline, then stores the pair in the
\* session, then starts the clock; the clock never invokes the trampoline
\* while the session's callback slot is empty.
C6_RegisterStoreStart ==
    /\ \A s \in Sessions :
        LET register == Pos(s, "register")
            store == Pos(s, "store")
            start == Pos(s, "start")
        IN  /\ store > 0 => 0 < register /\ register < store
            /\ start > 0 => 0 < store /\ store < start
    /\ \A p \in ProcIds :
        /\ tramp[p] # "noop"
        /\ ioProc[p].running => sess[ioProc[p].ctx].callback = p

\* The clock has invoked the trampoline of a started session, which found
\* its slot populated and called the render callback.
C6_Witness == \E p \in ProcIds : tramp[p] = "user" /\ ioProc[p].running

\* C7: teardown issues stop, then unregister, then destroy: no stop or
\* unregister follows a destroy in a session's log, an unregister is
\* preceded by the stop, and the drop of a started session that runs to its
\* end has issued exactly stop, unregister, destroy, in that order.
C7_TeardownOrder ==
    \A s \in Sessions :
        /\ \A i \in 1..Len(log[s]) :
              log[s][i] = "destroy" =>
                  \A j \in (i + 1)..Len(log[s]) :
                      log[s][j] \notin {"stop", "unregister"}
        /\ Issued(s, "unregister") => 0 < Pos(s, "stop")
                                      /\ Pos(s, "stop") < Pos(s, "unregister")
        /\ (DropCompleted /\ ctl.s = s) =>
              /\ Len(log[s]) >= 3
              /\ SubSeq(log[s], Len(log[s]) - 2, Len(log[s])) =
                    <<"stop", "unregister", "destroy">>

\* The drop of a started session has just sent the destroy command.
C7_Witness ==
    /\ ctl.op = "drop" /\ ctl.pc = "free" /\ ~ctl.panicking
    /\ Issued(ctl.s, "destroy")

\* C8 (the claim as stated): the trampoline never runs against a session
\* whose registration is gone or whose memory was freed.
C8_NoCallbackAfterTeardown ==
    \A p \in ProcIds :
        tramp[p] # "none" =>
            /\ ioProc[p].live
            /\ sess[ioProc[p].ctx].st \notin {"freed", "failed"}

\* set_input / set_output has replaced the stored handle of session s and
\* the sub-device write has not completed.
MidSwap(s) ==
    ctl.s = s /\ ctl.op \in {"set_input", "set_output"} /\ ctl.pc = "refresh"

\* C9 (the claim as stated): no callback invocation of a session is in
\* flight while a device swap on it is between replacing the stored handle
\* and completing the sub-device write, unless the pair the session stores
\* is the pair in effect on the virtual device.
C9_SwapSynchronized ==
    \A p \in ProcIds :
        (tramp[p] # "none" /\ MidSwap(ioProc[p].ctx)) =>
            LET w == sess[ioProc[p].ctx]
            IN  subDevices[w.device] = Prescribed(w.input, w.output)

\* C10: a session only moves forward: register, clock start and clock stop
\* are each issued at most once for it, and no register or start is issued
\* after its stop.
C10_OneWayLifecycle ==
    \A s \in Sessions :
        /\ Count(s, "register") <= 1
        /\ Count(s, "start") <= 1
        /\ Count(s, "stop") <= 1
        /\ \A i \in 1..Len(log[s]) :
              log[s][i] = "stop" =>
                  \A j \in (i + 1)..Len(log[s]) :
                      log[s][j] \notin {"register", "start"}

\* A session whose clock start failed has been stopped by the drop of its box.
C10_Witness ==
    \E s \in Sessions :
        /\ Issued(s, "stop") /\ sess[s].st = "failed"
        /\ \E t \in Sessions : Issued(t, "stop") /\ sess[t].st = "freed"

Started(s) == sess[s].st = "live" /\ ~(ctl.op = "drop" /\ ctl.s = s)

C12_TrampolineDispatch ==
    call.op = "session_io_proc" =>
        /\ call.r.ret = noErr
        /\ (~call.session \/ ~call.input \/ ~call.output
             \/ call.slot = NoProc) => call.r.calls = 0
        /\ (call.session /\ call.input /\ call.output
             /\ call.slot # NoProc) => call.r.calls = 1

\* The trampoline was invoked with a session whose slot is populated and an
\* input buffer list, but without an output buffer list.
C12_Witness ==
    /\ call.op = "session_io_proc"
    /\ call.session /\ call.input /\ ~call.output /\ call.slot # NoProc

\* C13: a trampoline invocation leaves the session's aggregate device
\* handle, plugin id, stored input and output handles and registration id
\* unchanged and issues no hardware primitive: a step of the callback
\* context changes neither a session nor the hardware's state nor the log
\* of primitives.
C13_TrampolineFrame ==
    [][tramp' # tramp =>
         /\ sess' = sess
         /\ log' = log
         /\ devList' = devList /\ subDevices' = subDevices
         /\ nextAgg' = nextAgg /\ ioProc' = ioProc]_vars

\* The trampoline of a started session is in flight, in the render
\* callback, while the control context is at rest.
C13_Witness ==
    \E p \in ProcIds :
        /\ tramp[p] = "user" /\ ctl.pc = "idle"
        /\ sess[ioProc[p].ctx].st = "live"
        /\ sess[ioProc[p].ctx].callback = p

\* The primitives of the call that the hardware answers with a non-zero
\* status (were they issued), by position.
Failing == {i \in DOMAIN call.sts : call.sts[i] # noErr}

\* C14: a property operation (get, set, translate, get_qualified,
\* all_devices, default_input_device, default_output_device, uid) returns Ok
\* exactly when every primitive returned status zero; otherwise it returns
\* an error carrying the first non-zero status, it issues no primitive after
\* that one, and it returns no output value.
C14_FirstErrorPropagates ==
    call.op \in PropertyOps =>
        /\ call.r.ok <=> Failing = {}
        /\ call.r.ok => call.r.issued = Len(call.sts) /\ call.r.err = noErr
        /\ ~call.r.ok =>
              \E f \in Failing :
                  /\ \A i \in Failing : f <= i
                  /\ call.r.err = call.sts[f]
                  /\ call.r.issued = f
                  /\ call.r.value = NoValue

\* An operation of two primitives whose size probe succeeded and whose read
\* failed.
C14_Witness ==
    /\ call.op \in ListOps
    /\ call.sts[1] = noErr /\ call.sts[2] # noErr
    /\ ~call.r.ok

\* start_session has come to its end: it returned, or the process aborted.
StartEnded == ctl.op = "start" /\ ctl.pc \in {"ret", "aborted"}

\* C15 (the claim as stated): if any primitive fails during start_session,
\* start_session returns to its caller an error carrying that primitive's
\* status; it does not abort the process, panic or report another status.
C15_StartAlwaysReturnsError ==
    (StartEnded /\ ctl.hw # noErr) =>
        /\ ctl.pc = "ret" /\ ~ctl.panicking
        /\ ctl.status = ctl.hw

\* set_input / set_output has returned an error.
SwapFailed ==
    /\ ctl.op \in {"set_input", "set_output"} /\ ctl.pc = "ret"
    /\ ctl.hw # noErr

\* C16: if the sub-device write fails during set_input(d) (set_output(d)),
\* the call returns the error, a subsequent input_device() (output_device())
\* returns d, the other stored handle is unchanged, and the virtual
\* device's sub-device list is as it was before the call.
C16_FailedSwapKeepsHandle ==
    SwapFailed =>
        /\ ctl.status = ctl.hw /\ ~ctl.panicking
        /\ ctl.op = "set_input" =>
              /\ InputDevice(ctl.s) = ctl.arg
              /\ OutputDevice(ctl.s) = ctl.snap[2]
        /\ ctl.op = "set_output" =>
              /\ OutputDevice(ctl.s) = ctl.arg
              /\ InputDevice(ctl.s) = ctl.snap[2]
        /\ subDevices[sess[ctl.s].device] = ctl.snap[1]

\* set_input(d) has failed on a session whose virtual device exists and
\* whose list had two entries, the first of them not uid(d): the wrapper
\* now stores d, the list still starts with the old input.
C16_Witness ==
    /\ SwapFailed /\ ctl.op = "set_input"
    /\ Len(ctl.snap[1]) = 2
    /\ ctl.snap[1][1] # OsUid(ctl.arg)
    /\ OsValid(sess[ctl.s].device)

\* C17: during the teardown of a session each of stop, unregister and
\* destroy is issued at most once, and a non-zero status from any of them
\* raises a panic (or aborts the process) instead of letting the teardown
\* complete normally.
C17_TeardownOnceAndFatal ==
    /\ \A s \in Sessions :
          /\ Count(s, "stop") <= 1
          /\ Count(s, "unregister") <= 1
          /\ Count(s, "destroy") <= 1
    /\ ctl.tdfail => ctl.panicking
    /\ ctl.tdfail => ~DropCompleted

\* The stop of a started session's drop failed: the unregistration was
\* skipped, the destroy command was still sent, once, by the unwinding, and
\* the panic reaches the caller.
C17_Witness ==
    /\ ctl.op = "drop" /\ ctl.pc = "ret" /\ ctl.tdfail /\ ctl.panicking
    /\ Count(ctl.s, "stop") = 1 /\ Count(ctl.s, "unregister") = 0
    /\ Count(ctl.s, "destroy") = 1

\* C18 (the claim as stated): at any time at most one live AggregateDevice
\* wrapper refers to a given virtual device handle, so the destroy command
\* of one wrapper's teardown never removes a device that another live
\* session still references.
C18_ExclusiveOwnership ==
    \A s, t \in Sessions :
        (s # t /\ sess[s].st = "live" /\ sess[t].st = "live") =>
            sess[s].device # sess[t].device

\* C19 (the claim as stated): for every buffer with byte size b and channel
\* count c >= 1, num_channels() = c and num_frames() = floor(b / (4 * c))
\* with 4 * c not wrapped to 32 bits (floor(floor(b / 4) / c), the same
\* number), so num_frames() * num_channels() samples cover at most b bytes.
C19_FramesWithoutWrap ==
    call.op = "buffer" =>
        /\ call.num_channels = call.c
        /\ call.num_frames = (call.b \div 4) \div call.c

\* C20: all_devices() returns exactly the handles of the system object's
\* device list, in the order the hardware reports them, and as many as the
\* probed byte size divided by the size of a handle.
C20_AllDevicesInOsOrder ==
    (call.op = "all_devices" /\ call.r.ok) =>
        /\ call.r.value = call.v
        /\ Len(call.r.value) = call.size \div HandleSize

\* all_devices() returned Ok on a list of three devices that is not in
\* ascending order of handles.
C20_Witness ==
    /\ call.op = "all_devices" /\ call.r.ok
    /\ call.v = <<3, 1, 2>>

\* C21 (the claim as stated): num_inputs() (num_outputs()) returns the
\* device's input (output) channel count described by its stream
\* configuration, for any number of streams and of channels per stream.
C21_ChannelCount ==
    (call.op \in {"num_inputs", "num_outputs"} /\ call.r.ok) =>
        call.r.value = TotalChannels(call.layout)

\* start_session has returned an error after it had asked for a virtual
\* device to be created or for the trampoline to be registered.
FailedStartReturned ==
    /\ ctl.op = "start" /\ ctl.pc = "ret"
    /\ ctl.hw # noErr /\ ~ctl.panicking
    /\ (Issued(ctl.s, "create") \/ Issued(ctl.s, "register"))

\* C22: when a start_session that had already created a virtual device or
\* registered the trampoline returns an error, the session has no live
\* registration, no clock is running for it and no virtual device with the
\* fixed UID is left in the device list; when the registration itself
\* failed, no stop and no unregister was issued.
C22_FailedStartLeavesNothing ==
    /\ FailedStartReturned =>
          /\ \A p \in ProcIds :
                ioProc[p].ctx = ctl.s => ~ioProc[p].live /\ ~ioProc[p].running
          /\ Aggregates = {}
    /\ \A s \in Sessions :
          (Issued(s, "register") /\ ~Issued(s, "store")) =>
              ~Issued(s, "stop") /\ ~Issued(s, "unregister")

\* The clock start of a session that created its virtual device failed and
\* start_session has returned the error after the drop of the box.
C22_Witness ==
    /\ FailedStartReturned
    /\ Issued(ctl.s, "create") /\ Issued(ctl.s, "start")
    /\ Issued(ctl.s, "stop") /\ Issued(ctl.s, "destroy")
    /\ sess[ctl.s].st = "failed"

\* C23: if the UID query for the input or for the output handle fails
\* during refresh_sub_device_array, no write is issued to the virtual
\* device and its sub-device list is unchanged; a list holding only the
\* input UID is never written while the stored input differs from the
\* stored output.
C23_NoPartialList ==
    call.op = "refresh" =>
        /\ (call.uidIn # noErr
             \/ (call.input # call.output /\ call.uidOut # noErr)) =>
                /\ ~call.r.ok /\ ~call.r.wrote
                /\ call.list = call.old
        /\ (call.r.wrote /\ call.input # call.output) =>
                call.r.array # <<OsUid(call.input)>>

\* The output UID query failed on a wrapper storing two different handles
\* whose device's list held other entries than the stored input alone.
C23_Witness ==
    /\ call.op = "refresh"
    /\ call.input # call.output
    /\ call.uidIn = noErr /\ call.uidOut # noErr
    /\ call.old # <<OsUid(call.input)>>
    /\ ~call.r.ok

\* C24 (the claim as stated): when the device list changes between the
\* size probe and the bulk read of all_devices(), every handle of a list
\* returned in Ok is one the hardware wrote in the bulk read: the result
\* holds no placeholder handle and no entry beyond the byte count the read
\* reported.
C24_OnlyHandlesRead ==
    (call.op = "all_devices, list changing" /\ call.r.ok) =>
        /\ \A i \in DOMAIN call.r.value :
              /\ call.r.value[i] # UninitDevice
              /\ call.r.value[i] = call.read[i]
        /\ HandleSize * Len(call.r.value) <= call.reported

====
